---- MODULE Spec2Model ----
(***************************************************************************)
(* Process manager and round-robin scheduler of OpenSovix (src/process.c). *)
(*                                                                         *)
(* Process records live at addresses 1..NAddr of one flat memory `mem`;    *)
(* 0 is the NULL pointer.  `live` is the set of addresses memory_alloc has *)
(* handed out for a PCB and memory_free has not taken back.  A pointer to  *)
(* an address outside `live` dangles: a read through it yields any value   *)
(* of the field's type, a write through it is lost.                        *)
(***************************************************************************)
EXTENDS Integers, Sequences, FiniteSets, TLC

\* ------------------------------------------------------------------ bounds
MAX_PROCESSES == 3      \* capacity of process_table (scaled down)
NAddr == 4              \* PCB addresses the allocator can hand out (> MAX_PROCESSES)
MaxPid == 3             \* process_create is not called once next_pid exceeds it
MaxCalls == 4           \* length of the remembered select_next call history
MaxRuns == 1            \* times the followed record is switched away from

\* ------------------------------------------------------------------ types
Null == 0
Addr == 1..NAddr
Ptr == Addr \cup {Null}
Slots == 0..(MAX_PROCESSES - 1)

\* u32 arithmetic.  A u32 is held as the signed reading of its 32 bits, so that
\* 0 - 1 is -1 (0xFFFFFFFF) and an unsigned comparison sees a negative value as
\* larger than every non-negative one.
Inc32(x) == IF x = 2147483647 THEN -2147483647 - 1 ELSE x + 1
Dec32(x) == IF x = -2147483647 - 1 THEN 2147483647 ELSE x - 1
GeU32(x, y) == IF (x < 0) = (y < 0) THEN x >= y ELSE x < 0

States == {"NEW", "READY", "RUNNING", "BLOCKED", "SUSPENDED", "ZOMBIE", "DEAD"}
\* The states callers pass to process_set_state (RUNNING is set by process_switch
\* only; NEW and DEAD are never passed).
SetStates == {"READY", "BLOCKED", "ZOMBIE", "SUSPENDED"}

\* The transitions the kernel's callers make through process_set_state while the
\* scheduler runs: the running process blocks or is terminated, a blocked one is
\* woken.
Sanctioned(from, to) ==
    \/ from = "RUNNING" /\ to \in {"BLOCKED", "ZOMBIE"}
    \/ from = "BLOCKED" /\ to = "READY"
UserNames == {"A", "B"}
\* Names play no part in dispatching: under the scheduler loop one is enough.
LoopNames == {"A"}
Names == UserNames \cup {"idle"}

\* A PCB as left by memory_free / before memory_alloc: contents are unspecified,
\* kept at one canonical value because no defined read can observe them.
FreeRec ==
    [pid |-> 0, name |-> "", state |-> "NEW", next |-> Null, prev |-> Null,
     stack_base |-> 0, heap_base |-> 0]

VARIABLES
    mem,              \* [Addr -> PCB]
    live,             \* allocated PCB addresses
    process_table,    \* [Slots -> Ptr]
    process_count,
    next_pid,
    ready_queue,
    blocked_queue,
    zombie_queue,
    current_process,
    last,             \* the static cursor of scheduler_select_next
    obs,              \* what the last operation did (name, result, frees)
    calls,            \* results of the select_next calls made back to back
    created,          \* pids returned by process_create, in call order
    exited,           \* pids of the processes that ran process_exit_handler
    ctx               \* one record's register snapshot and the CPU running it

vars ==
    <<mem, live, process_table, process_count, next_pid, ready_queue,
      blocked_queue, zombie_queue, current_process, last, obs, calls,
      created, exited, ctx>>

\* The kernel state as one value, threaded through the helper operators.
K ==
    [mem |-> mem, live |-> live, process_table |-> process_table,
     process_count |-> process_count, next_pid |-> next_pid,
     ready_queue |-> ready_queue, blocked_queue |-> blocked_queue,
     zombie_queue |-> zombie_queue, current_process |-> current_process,
     last |-> last, frees |-> <<>>, uaf |-> FALSE]

Commit(k) ==
    /\ mem' = k.mem
    /\ live' = k.live
    /\ process_table' = k.process_table
    /\ process_count' = k.process_count
    /\ next_pid' = k.next_pid
    /\ ready_queue' = k.ready_queue
    /\ blocked_queue' = k.blocked_queue
    /\ zombie_queue' = k.zombie_queue
    /\ current_process' = k.current_process
    /\ last' = k.last

\* ------------------------------------------------------------------ memory
FieldType(f) ==
    CASE f = "state" -> States
      [] f = "next" -> Ptr
      [] f = "prev" -> Ptr
      [] f = "name" -> Names
      [] f = "stack_base" -> {0, 1}
      [] f = "heap_base" -> {0, 1}

\* The values a read of p->f can yield.
Rd(k, p, f) == IF p \in k.live THEN {k.mem[p][f]} ELSE FieldType(f)

\* The state after a read through p: it is marked once p dangles.
Touch(k, p) == IF p \in k.live THEN k ELSE [k EXCEPT !.uaf = TRUE]

\* The store p->f = v.
Wr(k, p, f, v) ==
    IF p \in k.live THEN [k EXCEPT !.mem[p][f] = v] ELSE k

\* memory_free of a PCB, and of a region a PCB owns.
FreePcb(k, p) ==
    [k EXCEPT !.live = @ \ {p},
              !.mem = IF p \in Addr THEN [@ EXCEPT ![p] = FreeRec] ELSE @,
              !.frees = Append(@, <<"pcb", p>>)]

FreeRegion(k, kind, p) == [k EXCEPT !.frees = Append(@, <<kind, p>>)]

\* ------------------------------------------------------------------ queues
QueueOf(state) ==
    CASE state = "READY" -> "ready_queue"
      [] state = "BLOCKED" -> "blocked_queue"
      [] state = "ZOMBIE" -> "zombie_queue"
      [] OTHER -> "none"

\* process_remove_from_queue(proc, state); nx and pv are the values the reads of
\* proc->next and proc->prev yield.
process_remove_from_queue(k, proc, state, nx, pv) ==
    LET q == QueueOf(state) IN
    IF q = "none" THEN k
    ELSE
        LET k1 ==
                IF k[q] = proc
                THEN LET h == [k EXCEPT ![q] = nx]
                     IN  IF nx # Null THEN Wr(h, nx, "prev", Null) ELSE h
                ELSE LET a == IF pv # Null THEN Wr(k, pv, "next", nx) ELSE k
                     IN  IF nx # Null THEN Wr(a, nx, "prev", pv) ELSE a
        IN  Wr(Wr(k1, proc, "prev", Null), proc, "next", Null)

\* An insertion that does not set the old head's back link.
process_add_to_queue_no_backlink(k, proc, state) ==
    LET q == QueueOf(state) IN
    IF q = "none" THEN k
    ELSE [Wr(Wr(k, proc, "next", k[q]), proc, "prev", Null) EXCEPT ![q] = proc]

\* The last record of the list that starts at p.
RECURSIVE TailOf(_, _, _)
TailOf(k, p, n) ==
    IF n = 0 \/ p \notin k.live \/ k.mem[p].next = Null THEN p
    ELSE TailOf(k, k.mem[p].next, n - 1)

\* An insertion at the tail of the queue instead of its head.
process_add_to_queue_at_tail(k, proc, state) ==
    LET q == QueueOf(state) IN
    IF q = "none" THEN k
    ELSE IF k[q] = Null
         THEN [Wr(Wr(k, proc, "next", Null), proc, "prev", Null) EXCEPT ![q] = proc]
         ELSE LET t == TailOf(k, k[q], NAddr)
              IN  Wr(Wr(Wr(k, proc, "next", Null), proc, "prev", t), t, "next", proc)

\* process_add_to_queue(proc, state)
process_add_to_queue(k, proc, state) ==
    LET q == QueueOf(state) IN
    IF q = "none" THEN k
    ELSE
        LET k1 == Wr(Wr(k, proc, "next", k[q]), proc, "prev", Null)
            k2 == IF k[q] # Null THEN Wr(k1, k[q], "prev", proc) ELSE k1
        IN  [k2 EXCEPT ![q] = proc]

\* process_set_state(proc, new_state): the set of states it can leave the kernel
\* in (one state when proc is a live record).
process_set_state(k, proc, new_state) ==
    IF proc = Null THEN {k}
    ELSE
        { process_add_to_queue(
              process_remove_from_queue(
                  Wr(Touch(k, proc), proc, "state", new_state), proc, old, nx, pv),
              proc, new_state) :
          <<old, nx, pv>> \in
              Rd(k, proc, "state") \X Rd(k, proc, "next") \X Rd(k, proc, "prev") }

\* ------------------------------------------------------------------ table
\* process_find(name): the set of <<state, returned pointer>> it can yield
\* (Null: no record of that name).
RECURSIVE FindFrom(_, _, _)
FindFrom(k, name, i) ==
    IF i >= MAX_PROCESSES THEN {<<k, Null>>}
    ELSE
        LET p == k.process_table[i] IN
        IF p = Null THEN FindFrom(k, name, i + 1)
        ELSE (IF name \in Rd(k, p, "name") THEN {<<Touch(k, p), p>>} ELSE {})
             \cup (IF Rd(k, p, "name") # {name}
                   THEN FindFrom(Touch(k, p), name, i + 1) ELSE {})

process_find(k, name) == FindFrom(k, name, 0)

\* process_find_by_pid(pid) on live table entries.
process_find_by_pid(k, pid) ==
    LET hits == {i \in Slots : /\ k.process_table[i] # Null
                              /\ k.process_table[i] \in k.live
                              /\ k.mem[k.process_table[i]].pid = pid}
    IN  IF hits = {} THEN Null
        ELSE k.process_table[CHOOSE i \in hits : \A j \in hits : i <= j]

FreeSlots(k) == {i \in Slots : k.process_table[i] = Null}

\* ------------------------------------------------------------------ create
\* A pid taken from the number of live processes instead of the counter.
AssignPidFromCount(k, proc) ==
    [k EXCEPT !.mem[proc].pid = Inc32(k.process_count), !.next_pid = Inc32(@)]

\* proc->pid = next_pid++
AssignPid(k, proc) ==
    [k EXCEPT !.mem[proc].pid = k.next_pid, !.next_pid = Inc32(@)]

\* A capacity check that lets one record too many in.
TableFullOffByOne(k) == ~GeU32(MAX_PROCESSES, k.process_count)

\* process_count >= MAX_PROCESSES
TableFull(k) == GeU32(k.process_count, MAX_PROCESSES)

\* A process_create whose heap-failure path frees the PCB and forgets the stack.
process_create_leaks_stack(k, name, a, stackOk, heapOk) ==
    IF TableFull(k) THEN <<k, Null>>
    ELSE IF a = Null THEN <<k, Null>>
    ELSE
        LET k0 == [k EXCEPT
                     !.live = @ \cup {a},
                     !.mem[a] = [FreeRec EXCEPT !.name = name, !.state = "NEW"]]
            k1 == AssignPid(k0, a)
        IN
        IF ~stackOk THEN <<FreePcb(k1, a), Null>>
        ELSE
            LET k2 == Wr(k1, a, "stack_base", 1) IN
            IF ~heapOk THEN <<FreePcb(k2, a), Null>>
            ELSE
                LET k3 == Wr(k2, a, "heap_base", 1)
                    k4 == IF FreeSlots(k3) = {} THEN k3
                          ELSE [k3 EXCEPT
                                  !.process_table[
                                      CHOOSE i \in FreeSlots(k3) :
                                          \A j \in FreeSlots(k3) : i <= j] = a]
                    k5 == [k4 EXCEPT !.process_count = Inc32(@)]
                    k6 == CHOOSE r \in process_set_state(k5, a, "READY") : TRUE
                IN  <<k6, a>>

\* process_create(name, priority, entry_point).  `a` is the address memory_alloc
\* returns for the PCB (Null: it fails); stackOk and heapOk say whether the two
\* region allocations succeed.  Yields <<state, returned pointer>>.
process_create(k, name, a, stackOk, heapOk) ==
    IF TableFull(k) THEN <<k, Null>>
    ELSE IF a = Null THEN <<k, Null>>
    ELSE
        LET k0 == [k EXCEPT
                     !.live = @ \cup {a},
                     !.mem[a] = [FreeRec EXCEPT !.name = name, !.state = "NEW"]]
            k1 == AssignPid(k0, a)
        IN
        IF ~stackOk THEN <<FreePcb(k1, a), Null>>
        ELSE
            LET k2 == Wr(k1, a, "stack_base", 1) IN
            IF ~heapOk THEN <<FreePcb(FreeRegion(k2, "stack", a), a), Null>>
            ELSE
                LET k3 == Wr(k2, a, "heap_base", 1)
                    k4 == IF FreeSlots(k3) = {} THEN k3
                          ELSE [k3 EXCEPT
                                  !.process_table[
                                      CHOOSE i \in FreeSlots(k3) :
                                          \A j \in FreeSlots(k3) : i <= j] = a]
                    k5 == [k4 EXCEPT !.process_count = Inc32(@)]
                    k6 == CHOOSE r \in process_set_state(k5, a, "READY") : TRUE
                IN  <<k6, a>>

\* ------------------------------------------------------------------ scheduler
\* The two while loops of scheduler_select_next: from the pointers in S, follow
\* next while the record is not READY.  Yields the values `next` can have when
\* the loop ends (Null: it fell off the list).  A walk that comes back to a
\* record it has passed never ends and yields nothing.
RECURSIVE Walk(_, _, _)
Walk(k, S, seen) ==
    LET T == (S \ {Null}) \ seen
        hit == {p \in T : "READY" \in Rd(k, p, "state")}
        go == {p \in T : Rd(k, p, "state") # {"READY"}}
    IN  (S \cap {Null}) \cup hit
        \cup (IF go = {} THEN {}
              ELSE Walk(k, UNION {Rd(k, p, "next") : p \in go}, seen \cup T))

\* The records those loops dereference.
RECURSIVE WalkSeen(_, _, _)
WalkSeen(k, S, seen) ==
    LET T == (S \ {Null}) \ seen
        go == {p \in T : Rd(k, p, "state") # {"READY"}}
    IN  IF go = {} THEN seen \cup T
        ELSE WalkSeen(k, UNION {Rd(k, p, "next") : p \in go}, seen \cup T)

\* The records one call of scheduler_select_next dereferences through its
\* cursor and the queue links.
SelectDerefs(k) ==
    IF k.ready_queue = Null THEN {}
    ELSE
        LET l0 == IF k.last = Null THEN k.ready_queue ELSE k.last
            s1 == WalkSeen(k, Rd(k, l0, "next"), {})
            w1 == Walk(k, Rd(k, l0, "next"), {})
        IN  {l0} \cup s1
            \cup (IF Null \in w1 THEN WalkSeen(k, {k.ready_queue}, {}) ELSE {})

\* scheduler_select_next(): the set of <<state, returned pointer>> it can yield.
scheduler_select_next(k) ==
    IF k.ready_queue = Null
    THEN process_find(k, "idle")
    ELSE
        LET l0 == IF k.last = Null THEN k.ready_queue ELSE k.last
            k0 == [k EXCEPT !.last = l0,
                            !.uaf = @ \/ ~(SelectDerefs(k) \subseteq k.live)]
            w1 == Walk(k0, Rd(k0, l0, "next"), {})
            w2 == IF Null \in w1 THEN Walk(k0, {k0.ready_queue}, {}) ELSE {}
        IN  {<<[k0 EXCEPT !.last = n], n>> : n \in (w1 \cup w2) \ {Null}}
            \cup (IF Null \in w2 THEN process_find(k0, "idle") ELSE {})

\* A switch that leaves the state of `from` as it is.
process_switch_keeps_from(k, from, to) ==
    IF to = Null THEN k
    ELSE [Wr(k, to, "state", "RUNNING") EXCEPT !.current_process = to]

\* process_switch(from, to).  process_save_context and process_restore_context
\* move register values only and leave the scheduling state alone.
process_switch(k, from, to) ==
    IF to = Null THEN k
    ELSE
        LET k1 == IF from # Null THEN Wr(k, from, "state", "READY") ELSE k
            k2 == Wr(k1, to, "state", "RUNNING")
        IN  [k2 EXCEPT !.current_process = to]

\* ------------------------------------------------------------------ reaper
\* One pass of the loop body of process_reap_zombies on curr; sb and hb are the
\* values read from curr->stack_base and curr->heap_base.
ReapOne(k, curr, sb, hb) ==
    LET k1 == IF sb # 0 THEN FreeRegion(k, "stack", curr) ELSE k
        k2 == IF hb # 0 THEN FreeRegion(k1, "heap", curr) ELSE k1
        at == {i \in Slots : k2.process_table[i] = curr}
        k3 == IF at = {} THEN k2
              ELSE [k2 EXCEPT
                      !.process_table[CHOOSE i \in at : \A j \in at : i <= j] = Null]
    IN  [FreePcb(k3, curr) EXCEPT !.process_count = Dec32(@)]

\* The while loop of process_reap_zombies from curr on: the states it can end
\* in.  Every pass on a live record frees it, so those passes are finitely many;
\* the loop is followed through its first pass on a dangling curr (k.uaf tells
\* that it has made one) and not into a second.
RECURSIVE ReapLoop(_, _)
ReapLoop(k, curr) ==
    IF curr = Null THEN {[k EXCEPT !.zombie_queue = Null]}
    ELSE IF curr \notin k.live /\ k.uaf THEN {}
    ELSE UNION { ReapLoop(ReapOne(Touch(k, curr), curr, r[2], r[3]), r[1]) :
                 r \in Rd(k, curr, "next") \X Rd(k, curr, "stack_base")
                           \X Rd(k, curr, "heap_base") }

process_reap_zombies(k) == ReapLoop(k, k.zombie_queue)

\* The records process_reap_zombies visits when every read is defined (the list
\* from zombie_queue along next), as a sequence; it stops at a record met twice.
RECURSIVE Chain(_, _, _)
Chain(k, p, acc) ==
    IF p = Null \/ p \notin k.live \/ (\E i \in 1..Len(acc) : acc[i] = p)
    THEN acc
    ELSE Chain(k, k.mem[p].next, Append(acc, p))

\* system_maintenance(): the periodic zombie reaping of the scheduler loop.
system_maintenance(k, due) == IF due THEN process_reap_zombies(k) ELSE {k}

\* One pass of the body of scheduler_loop: <<state, selected record>>.
scheduler_loop(k, due) ==
    UNION { { <<m, r[2]>> :
              m \in system_maintenance(
                        IF r[2] # Null /\ r[2] # r[1].current_process
                        THEN process_switch(r[1], r[1].current_process, r[2])
                        ELSE r[1],
                        due) } :
            r \in scheduler_select_next(k) }

\* scheduler_yield(): mark the current record READY through process_set_state,
\* then reselect and switch.
scheduler_yield(k) ==
    UNION { { IF r[2] # Null /\ r[2] # r[1].current_process
              THEN process_switch(r[1], r[1].current_process, r[2])
              ELSE r[1] :
              r \in scheduler_select_next(k1) } :
            k1 \in process_set_state(k, k.current_process, "READY") }

\* process_exit_handler().  When the current record dangles, the handler is
\* followed to the end of its process_set_state call and no further.
process_exit_handler(k) ==
    IF k.current_process = Null THEN {k}
    ELSE IF k.current_process \notin k.live
    THEN process_set_state(k, k.current_process, "ZOMBIE")
    ELSE UNION { scheduler_yield(k1) :
                 k1 \in process_set_state(k, k.current_process, "ZOMBIE") }

\* ------------------------------------------------------------------ init
\* The state process_manager_init leaves: the idle process created, nothing
\* dispatched yet.
Empty ==
    [mem |-> [p \in Addr |-> FreeRec], live |-> {},
     process_table |-> [i \in Slots |-> Null],
     process_count |-> 0, next_pid |-> 1,
     ready_queue |-> Null, blocked_queue |-> Null, zombie_queue |-> Null,
     current_process |-> Null, last |-> Null, frees |-> <<>>, uaf |-> FALSE]

process_manager_init(a) == process_create(Empty, "idle", a, TRUE, TRUE)

KernelInit ==
    \E a \in {1} :
        LET r == process_manager_init(a) IN
        /\ mem = r[1].mem
        /\ live = r[1].live
        /\ process_table = r[1].process_table
        /\ process_count = r[1].process_count
        /\ next_pid = r[1].next_pid
        /\ ready_queue = r[1].ready_queue
        /\ blocked_queue = r[1].blocked_queue
        /\ zombie_queue = r[1].zombie_queue
        /\ current_process = r[1].current_process
        /\ last = r[1].last
        /\ obs = [op |-> "init", ret |-> r[2], frees |-> <<>>, uaf |-> FALSE,
                  fail |-> "none"]
        /\ calls = <<>>
        /\ created = <<r[1].mem[r[2]].pid>>
        /\ exited = {}

\* The register snapshot is followed on its own (SpecCtx); here it stays put.
NoCtx == [phase |-> "none"]

Init == KernelInit /\ ctx = NoCtx


\* ------------------------------------------------------------------ actions
\* What the operation just made did: its name, the pointer it returned, the
\* memory_free calls it made in order, whether it read through a dangling
\* pointer, and for process_create which allocation was set to fail.  After such a read the kernel's behaviour is not defined, and no
\* further operation is followed.
Observe(op, ret, k) ==
    obs' = [op |-> op, ret |-> ret, frees |-> k.frees, uaf |-> k.uaf,
            fail |-> "none"]

\* The memory_alloc call of process_create that is set to fail: the one for the
\* PCB, for the stack, for the heap, or none.
Failing(a, stackOk, heapOk) ==
    IF a = Null THEN "pcb"
    ELSE IF ~stackOk THEN "stack"
    ELSE IF ~heapOk THEN "heap"
    ELSE "none"

Defined == ~obs.uaf

Create(name, a, stackOk, heapOk) ==
    /\ Defined
    /\ a \in (Addr \ live) \cup {Null}
    /\ GeU32(process_count, MAX_PROCESSES) \/ a = Null \/ next_pid <= MaxPid
    /\ LET r == process_create(K, name, a, stackOk, heapOk) IN
       /\ Commit(r[1])
       /\ obs' = [op |-> "create", ret |-> r[2], frees |-> r[1].frees,
                  uaf |-> r[1].uaf, fail |-> Failing(a, stackOk, heapOk)]
       /\ created' = IF r[2] # Null THEN Append(created, r[1].mem[r[2]].pid)
                     ELSE created
    /\ calls' = <<>>
    /\ UNCHANGED <<exited, ctx>>

\* The idle process is a record like any other, told apart by its name; it
\* never blocks, exits or is terminated.
IsIdle(p) == p \in live /\ mem[p].name = "idle"

\* process_set_state(p, s) called on a record by the rest of the kernel while
\* the scheduler runs.
SetState(p, s) ==
    /\ Defined
    /\ p \in live \cup {Null}
    /\ ~IsIdle(p)
    /\ p # Null => /\ Sanctioned(mem[p].state, s)
                   /\ mem[p].state = "RUNNING" => p = current_process
    /\ \E k \in process_set_state(K, p, s) :
        /\ Commit(k)
        /\ Observe("set_state", p, k)
    /\ calls' = <<>>
    /\ UNCHANGED <<created, exited, ctx>>

\* process_set_state(p, s) called directly, with any record and any state a
\* caller passes.
SetStateApi(p, s) ==
    /\ Defined
    /\ p \in live \cup {Null}
    /\ \E k \in process_set_state(K, p, s) :
        /\ Commit(k)
        /\ Observe("set_state", p, k)
    /\ calls' = <<>>
    /\ UNCHANGED <<created, exited, ctx>>

SelectNext ==
    /\ Defined
    /\ \E r \in scheduler_select_next(K) :
        /\ Commit(r[1])
        /\ Observe("select_next", r[2], r[1])
        /\ calls' = IF Len(calls) < MaxCalls THEN Append(calls, r[2])
                    ELSE Append(Tail(calls), r[2])
    /\ UNCHANGED <<created, exited, ctx>>

SchedulerLoop(due) ==
    /\ Defined
    /\ \E r \in scheduler_loop(K, due) :
        /\ Commit(r[1])
        /\ Observe("scheduler_loop", r[2], r[1])
    /\ calls' = <<>>
    /\ UNCHANGED <<created, exited, ctx>>

ExitHandler ==
    /\ Defined
    /\ ~IsIdle(current_process)
    /\ \E k \in process_exit_handler(K) :
        /\ Commit(k)
        /\ Observe("exit", Null, k)
    /\ calls' = <<>>
    /\ exited' = IF current_process \in live
                 THEN exited \cup {mem[current_process].pid} ELSE exited
    /\ UNCHANGED <<created, ctx>>

ReapZombies ==
    /\ Defined
    /\ \E k \in process_reap_zombies(K) :
        /\ Commit(k)
        /\ Observe("reap", Null, k)
    /\ calls' = <<>>
    /\ UNCHANGED <<created, exited, ctx>>

\* The kernel under its scheduler loop: processes are created, dispatched,
\* block, are woken, exit and are reaped.
Next ==
    \/ \E name \in LoopNames, a \in Ptr : Create(name, a, TRUE, TRUE)
    \/ \E p \in Ptr, s \in SetStates : SetState(p, s)
    \/ \E due \in BOOLEAN : SchedulerLoop(due)
    \/ ExitHandler
    \/ ReapZombies

Spec == Init /\ [][Next]_vars

\* The process manager's functions called one by one, without a dispatch:
\* creations that may fail at any allocation, any state change, reaping, and
\* scheduler_select_next on its own.
NextApi ==
    \/ \E name \in UserNames, a \in Ptr, stackOk \in BOOLEAN, heapOk \in BOOLEAN :
          Create(name, a, stackOk, heapOk)
    \/ \E p \in Ptr, s \in SetStates : SetStateApi(p, s)
    \/ SelectNext
    \/ ReapZombies

SpecApi == Init /\ [][NextApi]_vars

\* ------------------------------------------------------------------ context
\* Addresses and register values are counted in 32-bit words.
NRegs == 16
EntryPoints == {1, 2}
StackTops == {8, 12}
\* What a member of Process other than registers[] can hold.
OtherWords == 0..1
\* process.h is not part of the sources: registers[] starts RegsAt words into
\* Process, for some RegsAt in 0..MaxRegsAt.
MaxRegsAt == 7
GeneralRegs == <<"eax", "ebx", "ecx", "edx", "esi", "edi", "ebp", "esp">>

\* process_init_context(proc): the snapshot it primes and the stack pointer it
\* leaves the two pushed words (exit handler, EFLAGS) under.
process_init_context(entry, top) ==
    LET stack == top - 2 IN
    [regs |-> [i \in 0..(NRegs - 1) |->
                  IF i = 0 THEN entry ELSE IF i = 1 THEN stack ELSE 0],
     stack |-> [sp |-> stack, flags |-> 514, ret |-> "process_exit_handler"]]

\* process_save_context(proc): movl %eax, 0(regs) ... movl %esp, 28(regs).
process_save_context(regs, cpu) ==
    [i \in 0..(NRegs - 1) |-> IF i < 8 THEN cpu[GeneralRegs[i + 1]] ELSE regs[i]]

\* The values the word at byte offset 4*w of the Process record can hold.
StructWord(c, w) ==
    IF c.regsAt <= w /\ w < c.regsAt + NRegs
    THEN {c.regs[w - c.regsAt]} ELSE OtherWords

\* process_restore_context(proc): the CPU states it can leave.  The eight movl
\* load eax..esp from registers[0..7]; the frame for iret takes ESP from
\* 28(proc) and EIP from 0(proc).  iret pops EIP, CS and EFLAGS, and ESP and SS
\* too when the code segment is of an outer privilege level (c.outer).
process_restore_context(c) ==
    LET loaded == [r \in {GeneralRegs[i] : i \in 1..8} |->
                      c.regs[(CHOOSE i \in 1..8 : GeneralRegs[i] = r) - 1]]
    IN  { [loaded EXCEPT !.esp = IF c.outer THEN sp ELSE loaded.esp - 2]
              @@ [eip |-> ip] :
          ip \in StructWord(c, 0), sp \in StructWord(c, 7) }

\* A record is created: its snapshot is primed.
CtxCreate ==
    /\ ctx.phase = "new"
    /\ ctx' = [ctx EXCEPT !.phase = "ready",
                          !.regs = process_init_context(ctx.entry, ctx.top).regs]
    /\ UNCHANGED <<mem, live, process_table, process_count, next_pid,
                   ready_queue, blocked_queue, zombie_queue, current_process,
                   last, obs, calls, created, exited>>

\* The record is dispatched: process_switch restores its snapshot.
CtxRestore ==
    /\ ctx.phase = "ready"
    /\ \E cpu \in process_restore_context(ctx) :
          ctx' = [ctx EXCEPT !.phase = "running", !.cpu = cpu]
    /\ UNCHANGED <<mem, live, process_table, process_count, next_pid,
                   ready_queue, blocked_queue, zombie_queue, current_process,
                   last, obs, calls, created, exited>>

\* The record is switched away from: the CPU holds where it had got to (ip, sp)
\* and process_switch saves its snapshot.
CtxSave(ip, sp) ==
    /\ ctx.phase = "running"
    /\ ctx.runs < MaxRuns
    /\ LET cpu == [ctx.cpu EXCEPT !.eip = ip, !.esp = sp] IN
       ctx' = [ctx EXCEPT !.phase = "ready", !.runs = @ + 1, !.at = <<ip, sp>>,
                          !.regs = process_save_context(ctx.regs, cpu)]
    /\ UNCHANGED <<mem, live, process_table, process_count, next_pid,
                   ready_queue, blocked_queue, zombie_queue, current_process,
                   last, obs, calls, created, exited>>

InitCtx ==
    /\ KernelInit
    /\ \E entry \in EntryPoints, top \in StackTops, at \in 0..MaxRegsAt,
          outer \in BOOLEAN :
          ctx = [phase |-> "new", entry |-> entry, top |-> top, regsAt |-> at,
                 outer |-> outer, runs |-> 0, at |-> <<entry, top - 2>>,
                 regs |-> [i \in 0..(NRegs - 1) |-> 0],
                 cpu |-> [r \in {GeneralRegs[i] : i \in 1..8} \cup {"eip"} |-> 0]]

NextCtx ==
    \/ CtxCreate
    \/ CtxRestore
    \/ \E ip \in EntryPoints, sp \in {s - 3 : s \in StackTops} : CtxSave(ip, sp)

\* One record's context through creation, first dispatch, switch-away, resume.
SpecCtx == InitCtx /\ [][NextCtx]_vars

\* ------------------------------------------------------------------ views
\* The records linked from a queue head along next, in order.
ReadySeq == Chain(K, ready_queue, <<>>)
BlockedSeq == Chain(K, blocked_queue, <<>>)
ZombieSeq == Chain(K, zombie_queue, <<>>)

Range(seq) == {seq[i] : i \in 1..Len(seq)}

InReady(p) == p \in Range(ReadySeq)
InBlocked(p) == p \in Range(BlockedSeq)
InZombie(p) == p \in Range(ZombieSeq)

\* Every pointer the process manager holds: queue heads, the running slot, the
\* scheduler's cursor, the table, and the links of the live records.
HeldPointers ==
    {ready_queue, blocked_queue, zombie_queue, current_process, last}
    \cup {process_table[i] : i \in Slots}
    \cup {mem[p].next : p \in live} \cup {mem[p].prev : p \in live}

\* ------------------------------------------------------------------ claims

\* C1: between operations, a live record is in the ready queue exactly when its
\* state is READY, in the blocked queue exactly when BLOCKED, in the zombie
\* queue exactly when ZOMBIE, and in no queue in any other state.
C1_QueueMatchesState ==
    Defined =>
        \A p \in live :
            /\ InReady(p) <=> mem[p].state = "READY"
            /\ InBlocked(p) <=> mem[p].state = "BLOCKED"
            /\ InZombie(p) <=> mem[p].state = "ZOMBIE"

\* C2: process_switch leaves a record that process_set_state made BLOCKED or
\* ZOMBIE in that state: a pass of the scheduler loop does not change the state
\* of a BLOCKED or ZOMBIE record that is still there after it.
C2_SwitchKeepsCallerState ==
    [][ \A p \in live :
          (/\ mem[p].state \in {"BLOCKED", "ZOMBIE"}
           /\ obs'.op = "scheduler_loop"
           /\ p \in live')
          => mem'[p].state = mem[p].state ]_vars

\* C3: a record the reaper frees is not the current process and is not linked
\* into the ready or the blocked queue, so that after a reap no queue head, no
\* link of a live record, no table slot, not the cursor and not the running
\* slot points to a freed record.
C3_ReapLeavesNoDanglingPointer ==
    (Defined /\ obs.op \in {"reap", "scheduler_loop"} /\ obs.frees # <<>>)
        => HeldPointers \subseteq live \cup {Null}

\* The ready queue is a list of READY records that ends in NULL.
ReadyClosed ==
    /\ ReadySeq # <<>>
    /\ mem[ReadySeq[Len(ReadySeq)]].next = Null
    /\ \A p \in Range(ReadySeq) : mem[p].state = "READY"

\* C4: with N records in the ready queue, all READY, and nothing but
\* scheduler_select_next called, any N calls in a row return N different
\* records of the queue, and the call N calls later returns the same record
\* again.
C4_RoundRobin ==
    ReadyClosed =>
        LET N == Len(ReadySeq) IN
        /\ \A i \in 1..Len(calls) : calls[i] \in Range(ReadySeq)
        /\ \A i, j \in 1..Len(calls) : (i < j /\ j - i < N) => calls[i] # calls[j]
        /\ \A i \in 1..Len(calls) : i + N <= Len(calls) => calls[i + N] = calls[i]

\* The scenario of C5: "idle", then "A", then "B" were created, all three are
\* READY and the ready queue holds them as the creations left it.
ScenarioAB ==
    /\ Len(ReadySeq) = 3
    /\ mem[ReadySeq[1]].name = "B" /\ mem[ReadySeq[1]].pid = 3
    /\ mem[ReadySeq[2]].name = "A" /\ mem[ReadySeq[2]].pid = 2
    /\ mem[ReadySeq[3]].name = "idle" /\ mem[ReadySeq[3]].pid = 1
    /\ ReadyClosed

\* C5: scheduler_select_next returns the idle process only when no other record
\* is READY; with idle, A and B created in that order, successive calls return
\* A and B in turn and never idle.
C5_IdleOnlyAsFallback ==
    Defined =>
        /\ (obs.op = "select_next" /\ IsIdle(obs.ret))
               => \A p \in live \ {obs.ret} : mem[p].state # "READY"
        /\ ScenarioAB =>
               /\ \A i \in 1..Len(calls) : mem[calls[i]].name \in {"A", "B"}
               /\ \A i \in 1..(Len(calls) - 1) : calls[i] # calls[i + 1]

\* C6: a record that process_set_state made BLOCKED stays BLOCKED, stays out of
\* the ready queue and is not returned by scheduler_select_next, through every
\* step that is not process_set_state(record, READY).
C6_BlockedUntilWoken ==
    [][ \A p \in live :
          (/\ mem[p].state = "BLOCKED"
           /\ p \in live' /\ mem'[p].pid = mem[p].pid
           /\ ~(obs'.op = "set_state" /\ mem'[p].state = "READY"))
          => /\ mem'[p].state = "BLOCKED"
             /\ ~InReady(p)'
             /\ ~(obs'.op \in {"select_next", "scheduler_loop"} /\ obs'.ret = p)
      ]_vars

Count(seq, x) == Cardinality({i \in 1..Len(seq) : seq[i] = x})

\* C7: process_reap_zombies passes the stack and the heap of every record of
\* the zombie queue to memory_free exactly once, empties the record's table
\* slot so that its pid is no longer found, and leaves the zombie queue empty;
\* with an empty zombie queue it changes nothing.
C7_ReapFreesEachZombieOnce ==
    [][ obs'.op = "reap" =>
          /\ \A p \in Range(ZombieSeq) :
                /\ Count(obs'.frees, <<"stack", p>>) = 1
                /\ Count(obs'.frees, <<"heap", p>>) = 1
                /\ \A i \in Slots : process_table'[i] # p
                /\ process_find_by_pid(K', mem[p].pid) = Null
          /\ zombie_queue' = Null
          /\ zombie_queue = Null => K' = K
      ]_vars

\* C8: the pids process_create returns are strictly increasing in call order,
\* so no two records, live or reaped, ever have the same pid.
C8_PidsStrictlyIncrease ==
    /\ \A i, j \in 1..Len(created) : i < j => created[i] < created[j]
    /\ \A p, q \in live : p # q => mem[p].pid # mem[q].pid
    /\ \A p \in live : \E i \in 1..Len(created) : created[i] = mem[p].pid

\* A record was created into the table slot of a reaped one.
C8_Witness ==
    /\ obs.op = "create" /\ obs.ret # Null
    /\ Len(created) = 3
    /\ process_table[1] = obs.ret
    /\ process_count = 2

\* C9: at most one live record is RUNNING, and it is the one current_process
\* points to.
C9_OneRunning ==
    \A p \in live : mem[p].state = "RUNNING" => p = current_process

\* The scheduler loop has switched from a record that had been running (it ran
\* its exit handler) to another one, which is now the only RUNNING record.
C9_Witness ==
    /\ obs.op = "scheduler_loop" /\ Defined
    /\ current_process \in live /\ mem[current_process].state = "RUNNING"
    /\ \E q \in live \ {current_process} :
          mem[q].state = "READY" /\ mem[q].pid \in exited

\* C10: a process that ran process_exit_handler stays ZOMBIE until it is reaped:
\* it is never READY or RUNNING again and scheduler_select_next never returns
\* it.
C10_ExitedStaysZombie ==
    Defined =>
        \A p \in live :
            mem[p].pid \in exited =>
                /\ mem[p].state = "ZOMBIE"
                /\ ~(obs.op \in {"select_next", "scheduler_loop"} /\ obs.ret = p)

\* The scheduler loop is a while (1): it keeps making passes.
SpecFair == Spec /\ WF_vars(\E due \in BOOLEAN : SchedulerLoop(due))

\* C11: under the fair scheduler loop, a READY record does not stay READY for
\* ever: it is dispatched (its state leaves READY) at some later point.
C11_ReadyEventuallyDispatched ==
    \A p \in Addr :
        (Defined /\ p \in live /\ mem[p].state = "READY")
            ~> (~Defined \/ p \notin live \/ mem[p].state # "READY")

\* The record process_manager_init created: the one with the first pid.
IdleRecords == {p \in live : mem[p].name = "idle" /\ mem[p].pid = created[1]}

\* C12: under the scheduler loop, with only non-idle processes blocking, exiting
\* and being terminated, the idle record stays allocated, stays in the process
\* table and is what process_find("idle") returns.
C12_IdleAlwaysPresent ==
    \E p \in IdleRecords :
        /\ \E i \in Slots : process_table[i] = p
        /\ \A r \in process_find(K, "idle") : r[2] = p

InNoQueue(p) == ~InReady(p) /\ ~InBlocked(p) /\ ~InZombie(p)

\* C13: process_manager_init leaves the idle record in no queue; process_create,
\* scheduler_select_next and process_reap_zombies neither insert it into a queue
\* nor remove it from one; and with an empty ready queue scheduler_select_next
\* returns the idle record and changes no queue and no record.
C13_IdleFallback ==
    [][ /\ obs.op = "init" => \A p \in IdleRecords : InNoQueue(p)
        /\ (obs'.op = "select_next" /\ ready_queue = Null)
               => /\ obs'.ret \in IdleRecords
                  /\ UNCHANGED <<mem, ready_queue, blocked_queue, zombie_queue>>
        /\ obs'.op \in {"create", "select_next", "reap"}
               => \A p \in IdleRecords :
                      p \in live' => /\ InReady(p)' <=> InReady(p)
                                     /\ InBlocked(p)' <=> InBlocked(p)
                                     /\ InZombie(p)' <=> InZombie(p)
      ]_vars

\* C14: a process_create whose stack allocation succeeds and whose heap
\* allocation fails returns NULL, passes the stack and then the PCB of that call
\* to memory_free once each, and leaves the table, process_count, the queues and
\* every record as they were.
C14_HeapFailureRollsBack ==
    [][ (/\ obs'.op = "create" /\ obs'.fail = "heap"
         /\ ~GeU32(process_count, MAX_PROCESSES))
        => /\ obs'.ret = Null
           /\ \E a \in Addr \ live :
                  obs'.frees = << <<"stack", a>>, <<"pcb", a>> >>
           /\ UNCHANGED <<mem, live, process_table, process_count,
                          ready_queue, blocked_queue, zombie_queue,
                          current_process>>
      ]_vars

\* A creation failed at its heap allocation while another record was queued.
C14_Witness ==
    /\ obs.op = "create" /\ obs.fail = "heap" /\ obs.ret = Null
    /\ obs.frees # <<>>
    /\ Len(ReadySeq) >= 2

\* C15: there are never more than MAX_PROCESSES live records, and a
\* process_create called while MAX_PROCESSES records are live returns NULL,
\* allocates and frees nothing and leaves the table, process_count, the pid
\* counter, the queues and every record as they were.
C15_TableFullRefused ==
    [][ /\ Cardinality(live) <= MAX_PROCESSES
        /\ Cardinality(live') <= MAX_PROCESSES
        /\ (obs'.op = "create" /\ Cardinality(live) >= MAX_PROCESSES)
           => /\ obs'.ret = Null
              /\ obs'.frees = <<>>
              /\ UNCHANGED <<mem, live, process_table, process_count, next_pid,
                             ready_queue, blocked_queue, zombie_queue,
                             current_process, last>>
      ]_vars

\* A creation whose allocations would all have succeeded was refused because
\* the table was full.
C15_Witness ==
    /\ obs.op = "create" /\ obs.fail = "none" /\ obs.ret = Null
    /\ Cardinality(live) = MAX_PROCESSES

\* C16: whenever process_restore_context has dispatched the record, the CPU is at
\* the instruction pointer and stack pointer the record's snapshot was meant to
\* hold: the entry point and the primed stack pointer on the first dispatch,
\* the point it was switched away from on a resume.
C16_RestoreLoadsWhatWasPrimed ==
    ctx.phase = "running" =>
        /\ ctx.cpu.eip = ctx.at[1]
        /\ ctx.cpu.esp = ctx.at[2]

\* A queue's members in order, leaving out p.
Without(seq, p) == SelectSeq(seq, LAMBDA x : x # p)

\* C17: a process_set_state call changes one record p only: every other live
\* record keeps its state, and each queue holds the same other records in the
\* same order before and after the call.
C17_SetStateFrame ==
    [][ obs'.op = "set_state" =>
          \E p \in Ptr :
              /\ \A q \in live \ {p} : mem'[q].state = mem[q].state
              /\ Without(ReadySeq', p) = Without(ReadySeq, p)
              /\ Without(BlockedSeq', p) = Without(BlockedSeq, p)
              /\ Without(ZombieSeq', p) = Without(ZombieSeq, p)
      ]_vars

\* C18: a call of scheduler_select_next reads only live records that are members
\* of the ready queue, and the record it returns is live and is the idle record
\* or a member of the ready queue whose state is READY.
C18_SelectReturnsLiveReady ==
    [][ obs'.op \in {"select_next", "scheduler_loop"} =>
          /\ SelectDerefs(K) \subseteq Range(ReadySeq)
          /\ obs'.ret # Null =>
                /\ obs'.ret \in live
                /\ \/ mem[obs'.ret].name = "idle"
                   \/ InReady(obs'.ret) /\ mem[obs'.ret].state = "READY"
      ]_vars

\* The list from head is a doubly-linked list of live records: the head has no
\* predecessor, each member is its successor's predecessor, and the last
\* member's next is NULL (so the list does not run into a cycle or a freed
\* record).
WellFormed(head) ==
    LET seq == Chain(K, head, <<>>) IN
    head # Null =>
        /\ seq # <<>>
        /\ mem[seq[1]].prev = Null
        /\ mem[seq[Len(seq)]].next = Null
        /\ \A i \in 1..(Len(seq) - 1) : mem[seq[i + 1]].prev = seq[i]

QueuesWellFormed ==
    /\ WellFormed(ready_queue) /\ WellFormed(blocked_queue)
    /\ WellFormed(zombie_queue)
    /\ Range(ReadySeq) \cap Range(BlockedSeq) = {}
    /\ Range(ReadySeq) \cap Range(ZombieSeq) = {}
    /\ Range(BlockedSeq) \cap Range(ZombieSeq) = {}

\* C19: with no process_switch, the three queues are always well-formed
\* doubly-linked lists, pairwise disjoint, and a record that process_create or
\* process_set_state has just put into a queue is that queue's head.
C19_QueuesWellFormed ==
    /\ QueuesWellFormed
    /\ (obs.op = "create" /\ obs.ret # Null) => ready_queue = obs.ret
    /\ (obs.op = "set_state" /\ obs.ret \in live) =>
          /\ mem[obs.ret].state = "READY" => ready_queue = obs.ret
          /\ mem[obs.ret].state = "BLOCKED" => blocked_queue = obs.ret
          /\ mem[obs.ret].state = "ZOMBIE" => zombie_queue = obs.ret

\* process_set_state has moved a record into a queue that already had a member
\* while another record stays in the ready queue.
C19_Witness ==
    /\ obs.op = "set_state" /\ obs.ret \in live
    /\ Len(ReadySeq) >= 1
    /\ \/ Len(BlockedSeq) >= 2 /\ blocked_queue = obs.ret
       \/ Len(ZombieSeq) >= 2 /\ zombie_queue = obs.ret

\* A rotation is in progress when the cursor of scheduler_select_next stands on
\* a member of the ready queue.
RotationInProgress == last # Null /\ last \in Range(ReadySeq)

\* The READY records the rotation has still to return before it wraps to the
\* head: the members of the ready queue behind the cursor, in order.
Pending ==
    LET at == CHOOSE i \in 1..Len(ReadySeq) : ReadySeq[i] = last
    IN  SelectSeq(SubSeq(ReadySeq, at + 1, Len(ReadySeq)),
                  LAMBDA p : mem[p].state = "READY")

ZombieAcyclic ==
    ZombieSeq # <<>> => mem[ZombieSeq[Len(ZombieSeq)]].next \notin Range(ZombieSeq)

\* No region went to memory_free twice in the operation just made.
NoDoubleFree ==
    \A i, j \in 1..Len(obs.frees) : i < j => obs.frees[i] # obs.frees[j]

\* C21: process_reap_zombies terminates in every reachable state: the zombie
\* list is finite and acyclic (no record linked into it twice, no record whose
\* next refers to itself), so the drain loop visits each zombie once and no
\* record is freed more than once.
C21_ReapTerminates ==
    /\ ZombieAcyclic
    /\ NoDoubleFree

OccupiedSlots == {i \in Slots : process_table[i] # Null}

\* The pointers a queue holds: its head and what the next links lead to from
\* it, up to and including a first pointer to a freed record.
QueuePtrs(head) ==
    LET seq == Chain(K, head, <<>>)
        end == IF seq = <<>> THEN head ELSE mem[seq[Len(seq)]].next
    IN  Range(seq) \cup ({end} \ {Null})

SlotsOf(p) == {i \in Slots : process_table[i] = p}

\* C22: process_count equals the number of occupied process-table slots, and
\* every record that is in a queue or is the current process occupies exactly
\* one table slot.
C22_CountMatchesTable ==
    /\ process_count = Cardinality(OccupiedSlots)
    /\ \A p \in QueuePtrs(ready_queue) \cup QueuePtrs(blocked_queue)
                  \cup QueuePtrs(zombie_queue) \cup ({current_process} \ {Null}) :
           Cardinality(SlotsOf(p)) = 1

\* C23: a process_create call that fails (table full, or PCB, stack or heap
\* allocation failure) does not consume a pid: it leaves next_pid as it was, so
\* the next successful call returns the pid it would have returned anyway.
C23_FailedCreateKeepsPid ==
    [][ (obs'.op = "create" /\ obs'.ret = Null) => next_pid' = next_pid ]_vars

====
